---- MODULE Spec2Model ----
(***************************************************************************)
(* RoundTripPlugin (plugins/round_trip.hpp): one request through           *)
(* HandleRequest.  Waypoints are bound to phantom nodes (GetPhantomNodes), *)
(* a distance table is built, the locations are split into strongly        *)
(* connected components, a TSP heuristic runs on every component with more *)
(* than one location, every trip is turned into a route by ComputeRoute    *)
(* and the routes are summed and rendered into the JSON result.            *)
(*                                                                         *)
(* Arrays of the program that are indexed from 0 are sequences here, so    *)
(* location i of the program is element i + 1 of the sequence.             *)
(***************************************************************************)
EXTENDS Integers, Sequences, FiniteSets, TLC

VARIABLES
    route_parameters,     \* the request: coordinates, hints, check_sum, tsp_algo, uturns
    pc,                   \* position of HandleRequest
    status,               \* value returned by HandleRequest, 0 while it runs
    phantom_node_vector,  \* PhantomNodeArray: one vector of PhantomNode per coordinate
    i,                    \* loop index of GetPhantomNodes
    result_table,         \* the flattened row-major distance table
    components,           \* vector of vectors of location ids
    k,                    \* loop index over components
    res_route,            \* the trips, one per component with more than one location
    route,                \* vector of InternalRouteResult
    json_result,          \* the keys written to the result object
    calls                 \* log of the calls made to the facade, the search engine and the heuristics

vars == <<route_parameters, pc, status, phantom_node_vector, i, result_table,
          components, k, res_route, route, json_result, calls>>

-----------------------------------------------------------------------------
(* Bounds of the model *)

\* the table entries among the first DetailLocations locations vary freely, and
\* every request of up to DetailLocations coordinates is taken
DetailLocations == 2
\* the nearest-candidate search returns 0..MaxCandidates phantom nodes
MaxCandidates == 3
\* largest table of the partitioning specification
MaxTableLocations == 3

(* Program constants *)

BF_MAX_FEASABLE == 10
INVALID_EDGE_WEIGHT == 2147483647
\* facade->GetCheckSum()
FacadeCheckSum == 7
\* a check_sum of another network version
StaleCheckSum == 8
\* largest value of one base64 symbol of a hint
MaxHintSymbol == 63

-----------------------------------------------------------------------------
(* Helpers *)

Min2(a, b) == IF a < b THEN a ELSE b

\* std::iota(begin, end, 0) over a vector of n elements
Iota(n) == [x \in 1..n |-> x - 1]

Range(s) == {s[x] : x \in DOMAIN s}

RECURSIVE SumSeq(_)
SumSeq(s) == IF s = <<>> THEN 0 ELSE Head(s) + SumSeq(Tail(s))

\* std::max_element over a non-empty range
MaxElement(s) == CHOOSE m \in Range(s) : \A x \in Range(s) : x <= m
\* std::min_element over a non-empty range
MinElement(s) == CHOOSE m \in Range(s) : \A x \in Range(s) : m <= x

Reverse(s) == [x \in 1..Len(s) |-> s[Len(s) + 1 - x]]
RotateLeft(s) == IF s = <<>> THEN s ELSE Tail(s) \o <<Head(s)>>

-----------------------------------------------------------------------------
(* The facade and the hint encoding *)

\* sizes of the requests of the model: the small ones and those around BF_MAX_FEASABLE
LocationCounts == (1..DetailLocations) \cup {BF_MAX_FEASABLE - 1, BF_MAX_FEASABLE}

\* facade->GetNumberOfNodes()
NumberOfNodes == (BF_MAX_FEASABLE + 1) * (MaxCandidates + 1)

PhantomNode(id) == [forward_node_id |-> id]

\* PhantomNode::is_valid(numberOfNodes)
is_valid(phantom_node, number_of_nodes) == phantom_node.forward_node_id < number_of_nodes

\* ObjectEncoder::DecodeFromBase64: the symbols of the hint are the digits of the node id
RECURSIVE DecodeDigits(_, _)
DecodeDigits(hint, acc) ==
    IF hint = <<>> THEN acc
    ELSE DecodeDigits(Tail(hint), acc * (MaxHintSymbol + 1) + Head(hint))

DecodeFromBase64(hint) == PhantomNode(DecodeDigits(hint, 0))

\* the c-th phantom node the search returns for coordinate loc
Candidate(loc, c) == PhantomNode(loc * (MaxCandidates + 1) + c)

\* facade->IncrementalFindPhantomNodeForCoordinate(coordinate, vector, 1) appends
\* the candidates it found to the vector
IncrementalFindPhantomNodeForCoordinate(loc, vector, found) ==
    vector \o [c \in 1..found |-> Candidate(loc, c)]

\* how many candidates the network has at a coordinate: the longitudes
\* 0..MaxCandidates of the model stand for places with that many candidates
NumberOfCandidatesAt(coordinate) == coordinate.lon % (MaxCandidates + 1)

\* the hints a request can carry for one coordinate: none, one of a valid node, one
\* of a node the network does not have
HintValues == {<<>>, <<1>>, <<0, 5>>, <<MaxHintSymbol, MaxHintSymbol>>}

\* FixedPointCoordinate::is_valid
coordinate_is_valid(coordinate) ==
    /\ coordinate.lat >= -90 /\ coordinate.lat <= 90
    /\ coordinate.lon >= -180 /\ coordinate.lon <= 180

\* BasePlugin::check_all_coordinates
check_all_coordinates(coordinates) ==
    \A x \in DOMAIN coordinates : coordinate_is_valid(coordinates[x])

GoodCoordinate(loc, lon) == [lat |-> loc, lon |-> lon]
BadCoordinate == [lat |-> 91, lon |-> 1]

-----------------------------------------------------------------------------
(* GetPhantomNodes, lines 83-106: one action per iteration of the loop *)

number_of_coordinates == Len(route_parameters.coordinates)

\* line 84
checksum_OK_stale(rp) == TRUE
checksum_OK(rp) == rp.check_sum = FacadeCheckSum

\* lines 89-90: "if client hints are helpful"
HintIsHelpful(rp, loc) ==
    /\ checksum_OK(rp)
    /\ loc < Len(rp.hints)
    /\ rp.hints[loc + 1] # <<>>

\* lines 89-93: the hint is decoded and the decoded node is valid
HintIsReused(rp, loc) ==
    /\ HintIsHelpful(rp, loc)
    /\ is_valid(DecodeFromBase64(rp.hints[loc + 1]), NumberOfNodes)

\* lines 101-103
EraseFirstIfSeveral(vector) == IF Len(vector) > 1 THEN Tail(vector) ELSE vector

\* lines 91-96
ReuseHint ==
    /\ pc = "GetPhantomNodes"
    /\ i < number_of_coordinates
    /\ HintIsReused(route_parameters, i)
    /\ phantom_node_vector' =
         [phantom_node_vector EXCEPT
            ![i + 1] = Append(@, DecodeFromBase64(route_parameters.hints[i + 1]))]
    /\ i' = i + 1
    /\ UNCHANGED <<route_parameters, pc, status, result_table, components, k,
                   res_route, route, json_result, calls>>

\* lines 99-104.  With no candidate the BOOST_ASSERT of line 104 reads front() of
\* an empty vector: a build with assertions stops there, a build without them
\* goes on with the empty vector.
FindPhantomNode ==
    /\ pc = "GetPhantomNodes"
    /\ i < number_of_coordinates
    /\ ~HintIsReused(route_parameters, i)
    /\ LET found == NumberOfCandidatesAt(route_parameters.coordinates[i + 1])
           searched == IncrementalFindPhantomNodeForCoordinate(
                           i, phantom_node_vector[i + 1], found)
           kept == EraseFirstIfSeveral(searched)
       IN /\ phantom_node_vector' = [phantom_node_vector EXCEPT ![i + 1] = kept]
          /\ calls' = [calls EXCEPT !.find = Append(@, i)]
          /\ \/ /\ kept # <<>>
                /\ is_valid(kept[1], NumberOfNodes)
                /\ i' = i + 1
                /\ pc' = pc
             \/ /\ kept = <<>>
                /\ \E asserts \in BOOLEAN :
                     IF asserts THEN i' = i /\ pc' = "aborted"
                                ELSE i' = i + 1 /\ pc' = pc
    /\ UNCHANGED <<route_parameters, status, result_table, components, k,
                   res_route, route, json_result>>

-----------------------------------------------------------------------------
(* The distance table, lines 191-196 *)

\* entry (from, to) of a table over n locations
TableEntry(table, n, from, to) == table[from * n + to + 1]

\* The tables search_engine_ptr->distance_table can return for n locations, of
\* which the first `detail` vary pairwise: `blocked` are the pairs among them with
\* no route; the other locations reach each other, and reach (are reached from)
\* the first ones or not, all alike.
TableOf(n, detail, blocked, to_rest, from_rest) ==
    [x \in 1..(n * n) |->
        LET from == (x - 1) \div n
            to == (x - 1) % n
        IN IF from = to THEN 0
           ELSE IF from < detail /\ to < detail
                THEN (IF <<from, to>> \in blocked THEN INVALID_EDGE_WEIGHT ELSE 1)
           ELSE IF from >= detail /\ to >= detail THEN 1
           ELSE IF from < detail
                THEN (IF to_rest THEN 1 ELSE INVALID_EDGE_WEIGHT)
           ELSE (IF from_rest THEN 1 ELSE INVALID_EDGE_WEIGHT)]

Tables(n, detail) ==
    LET d == Min2(n, detail)
        pairs == {p \in (0..(d - 1)) \X (0..(d - 1)) : p[1] # p[2]}
        flags == IF n > d THEN BOOLEAN ELSE {TRUE}
    IN {TableOf(n, d, blocked, to_rest, from_rest) :
            blocked \in SUBSET pairs, to_rest \in flags, from_rest \in flags}

\* an empty table, or a full one
DistanceTables(n) == {<<>>} \cup Tables(n, DetailLocations)

\* lines 192-196: the table is built once; an empty one ends the request
BuildDistanceTableReturning(empty_status) ==
    /\ pc = "GetPhantomNodes"
    /\ i = number_of_coordinates
    /\ \E table \in DistanceTables(Len(phantom_node_vector)) :
         /\ result_table' = table
         /\ calls' = [calls EXCEPT !.distance_table = @ + 1]
         /\ IF Len(table) = 0
            THEN pc' = "done" /\ status' = empty_status
            ELSE pc' = "partition" /\ status' = status
    /\ UNCHANGED <<route_parameters, phantom_node_vector, i, components, k,
                   res_route, route, json_result>>

BuildDistanceTableAcceptingEmpty == BuildDistanceTableReturning(200)
BuildDistanceTable == BuildDistanceTableReturning(400)

-----------------------------------------------------------------------------
(* TarjanSCC over MatrixGraphWrapper *)

\* MatrixGraphWrapper::GetAdjacentEdgeRange: the entries of the row that are not
\* INVALID_EDGE_WEIGHT
IsEdge(table, n, from, to) == TableEntry(table, n, from, to) # INVALID_EDGE_WEIGHT

PositionOf(stack, v) == CHOOSE x \in DOMAIN stack : stack[x] = v

\* the nodes from v to the top of the stack become the next component
PopComponent(st, v) ==
    LET at == PositionOf(st.stack, v)
        members == {st.stack[x] : x \in at..Len(st.stack)}
    IN [st EXCEPT
          !.component = [w \in DOMAIN @ |->
                            IF w \in members THEN st.number_of_components ELSE @[w]],
          !.stack = SubSeq(@, 1, at - 1),
          !.number_of_components = @ + 1]

\* the smallest of a non-empty set of numbers
Least(set) == CHOOSE m \in set : \A x \in set : m <= x

RECURSIVE Visit(_, _, _, _)
RECURSIVE VisitEdges(_, _, _, _)

\* the edges of v: each target not yet seen is visited, in the order of the row,
\* and v takes its lowlink; the targets on the stack give v their index
VisitEdges(table, n, st, v) ==
    LET targets == {w \in 0..(n - 1) : IsEdge(table, n, v, w)}
        unseen == {w \in targets : st.index[w] = -1}
    IN IF unseen # {}
       THEN LET w == Least(unseen)
                sub == Visit(table, n, st, w)
            IN VisitEdges(table, n,
                   [sub EXCEPT !.lowlink[v] = Min2(@, sub.lowlink[w])], v)
       ELSE [st EXCEPT !.lowlink[v] =
                Least({@} \cup {st.index[w] : w \in targets \cap Range(st.stack)})]

Visit(table, n, st, v) ==
    LET entered == [st EXCEPT !.index[v] = st.next, !.lowlink[v] = st.next,
                              !.next = @ + 1, !.stack = Append(@, v)]
        explored == VisitEdges(table, n, entered, v)
    IN IF explored.lowlink[v] = explored.index[v]
       THEN PopComponent(explored, v)
       ELSE explored

RECURSIVE RunFrom(_, _, _, _)
RunFrom(table, n, st, v) ==
    IF v = n THEN st
    ELSE IF st.index[v] = -1 THEN RunFrom(table, n, Visit(table, n, st, v), v + 1)
    ELSE RunFrom(table, n, st, v + 1)

\* TarjanSCC::run: get_component_id is .component, get_number_of_components is
\* .number_of_components
TarjanSCC(table, n) ==
    RunFrom(table, n,
            [index |-> [v \in 0..(n - 1) |-> -1],
             lowlink |-> [v \in 0..(n - 1) |-> -1],
             component |-> [v \in 0..(n - 1) |-> -1],
             stack |-> <<>>, next |-> 0, number_of_components |-> 0],
            0)

-----------------------------------------------------------------------------
(* The components, lines 108-124 and 200-213 *)

\* lines 117-123 with every location pushed to the first component
SplitIntoFirstComponent(number_of_locations, table) ==
    LET scc == TarjanSCC(table, number_of_locations)
    IN [j \in 1..scc.number_of_components |->
           IF j = 1 THEN Iota(number_of_locations) ELSE <<>>]

\* lines 108-124
SplitUnaccessibleLocations(number_of_locations, table) ==
    LET scc == TarjanSCC(table, number_of_locations)
    IN [j \in 1..scc.number_of_components |->
           SelectSeq(Iota(number_of_locations), LAMBDA loc : scc.component[loc] = j - 1)]

\* line 204 with min_element for max_element
SmallestIsInvalid(table) == MinElement(table) = INVALID_EDGE_WEIGHT

\* line 204
HasUnaccessibleLocation(table) == MaxElement(table) = INVALID_EDGE_WEIGHT

\* lines 200-213
ComponentsOf(number_of_locations, table) ==
    IF HasUnaccessibleLocation(table)
    THEN SplitUnaccessibleLocations(number_of_locations, table)
    ELSE <<Iota(number_of_locations)>>

Partition ==
    /\ pc = "partition"
    /\ components' = ComponentsOf(Len(phantom_node_vector), result_table)
    /\ k' = 0
    /\ pc' = "tsp"
    /\ UNCHANGED <<route_parameters, status, phantom_node_vector, i, result_table,
                   res_route, route, json_result, calls>>

-----------------------------------------------------------------------------
(* The TSP of every component, lines 215-241 *)

\* line 219 with a component of one location taken too
HasLocation(component) == Len(component) > 0

\* line 219
HasSeveralLocations(component) == Len(component) > 1

\* lines 223-239 with the brute force gated on the size of the component
TspAlgorithmByComponentSize(rp, component) ==
    IF rp.tsp_algo = "BF" /\ Len(component) < BF_MAX_FEASABLE THEN "BruteForceTSP"
    ELSE IF rp.tsp_algo = "NN" THEN "NearestNeighbourTSP"
    ELSE "FarthestInsertionTSP"

\* lines 223-239: the function that is run on the component
TspAlgorithm(rp, component) ==
    IF rp.tsp_algo = "BF" /\ Len(rp.coordinates) < BF_MAX_FEASABLE THEN "BruteForceTSP"
    ELSE IF rp.tsp_algo = "NN" THEN "NearestNeighbourTSP"
    ELSE IF rp.tsp_algo = "FI" THEN "FarthestInsertionTSP"
    ELSE "FarthestInsertionTSP"

\* osrm::tsp::BruteForceTSP, NearestNeighbourTSP, FarthestInsertionTSP: each returns
\* some order of the locations of the component
BruteForceTSP(component) == component
NearestNeighbourTSP(component) == Reverse(component)
FarthestInsertionTSP(component) == RotateLeft(component)

RunAlgorithm(algorithm, component) ==
    CASE algorithm = "BruteForceTSP" -> BruteForceTSP(component)
      [] algorithm = "NearestNeighbourTSP" -> NearestNeighbourTSP(component)
      [] algorithm = "FarthestInsertionTSP" -> FarthestInsertionTSP(component)

\* one iteration of the loop of line 218
RunTSP ==
    /\ pc = "tsp"
    /\ k < Len(components)
    /\ LET scc == components[k + 1]
           chosen == TspAlgorithm(route_parameters, scc)
       IN IF HasSeveralLocations(scc)
          THEN /\ res_route' = Append(res_route, RunAlgorithm(chosen, scc))
               /\ calls' = [calls EXCEPT !.tsp = Append(@,
                               [algorithm |-> chosen, component |-> scc])]
          ELSE UNCHANGED <<res_route, calls>>
    /\ k' = k + 1
    /\ pc' = IF k + 1 < Len(components) THEN "tsp" ELSE "ComputeRoute"
    /\ UNCHANGED <<route_parameters, status, phantom_node_vector, i, result_table,
                   components, route, json_result>>

-----------------------------------------------------------------------------
(* ComputeRoute, lines 149-177 *)

\* what phantom_node_vector[loc][0] reads: the first node of the vector, and
\* whatever the memory holds when the vector is empty
GarbageNodes == {PhantomNode(0), PhantomNode(NumberOfNodes)}

FirstPhantomNodes(vector, garbage) ==
    [loc \in 0..(Len(vector) - 1) |->
        IF vector[loc + 1] # <<>> THEN vector[loc + 1][1] ELSE garbage]

PhantomNodes(source, target) == [source_phantom |-> source, target_phantom |-> target]

\* lines 155-163: the legs of the trip and the leg from its last location to its first
SegmentEndCoordinates(trip, first) ==
    [x \in 1..(Len(trip) - 1) |-> PhantomNodes(first[trip[x]], first[trip[x + 1]])]
        \o <<PhantomNodes(first[trip[Len(trip)]], first[trip[1]])>>

\* the length the search engine finds for one leg
LegLength(leg) ==
    1 + ((leg.source_phantom.forward_node_id + 2 * leg.target_phantom.forward_node_id) % 5)

\* search_engine_ptr->shortest_path: shortest_path_length of the route over the legs
ShortestPathLength(legs) == SumSeq([x \in DOMAIN legs |-> LegLength(legs[x])])

Query(legs, uturns) == [segment_end_coordinates |-> legs, uturns |-> uturns]

\* one iteration of the loop of line 171: ComputeRoute of the trip (with the
\* shortest_path of line 164), push_back, and the shortest_path of line 175
ComputeRoute ==
    /\ pc = "ComputeRoute"
    /\ Len(route) < Len(res_route)
    /\ LET curr_trip == res_route[Len(route) + 1]
           reads_empty == \E loc \in Range(curr_trip) : phantom_node_vector[loc + 1] = <<>>
       IN \E garbage \in (IF reads_empty THEN GarbageNodes ELSE {PhantomNode(0)}),
             crashes \in (IF reads_empty THEN BOOLEAN ELSE {FALSE}) :
            IF crashes
            THEN /\ pc' = "aborted"
                 /\ UNCHANGED <<route, calls>>
            ELSE LET legs == SegmentEndCoordinates(
                                 curr_trip, FirstPhantomNodes(phantom_node_vector, garbage))
                     query == Query(legs, route_parameters.uturns)
                 IN /\ route' = Append(route,
                                   [segment_end_coordinates |-> legs,
                                    shortest_path_length |-> ShortestPathLength(legs)])
                    /\ calls' = [calls EXCEPT !.shortest_path = @ \o <<query, query>>]
                    /\ pc' = pc
    /\ UNCHANGED <<route_parameters, status, phantom_node_vector, i, result_table,
                   components, k, res_route, json_result>>

-----------------------------------------------------------------------------
(* The result, lines 244-257 *)

\* lines 248-252 with the distance of the last route only
LastDistance(routes) ==
    IF routes = <<>> THEN 0 ELSE routes[Len(routes)].shortest_path_length

\* lines 248-252
TotalDistance(routes) ==
    SumSeq([x \in DOMAIN routes |-> routes[x].shortest_path_length])

\* lines 140-147 and 251: JSONDescriptor::Run renders the route into the result
SetGeometry(routes) == [x \in DOMAIN routes |-> routes[x].segment_end_coordinates]

NoResult == [values |-> {}, distance |-> 0, geometry |-> <<>>]

SetOutputs ==
    /\ pc = "ComputeRoute"
    /\ Len(route) = Len(res_route)
    /\ json_result' = [values |-> {"runtime", "distance"}
                                    \cup (IF route = <<>> THEN {} ELSE {"route_geometry"}),
                       distance |-> TotalDistance(route),
                       geometry |-> SetGeometry(route)]
    /\ status' = 200
    /\ pc' = "done"
    /\ UNCHANGED <<route_parameters, phantom_node_vector, i, result_table,
                   components, k, res_route, route, calls>>

-----------------------------------------------------------------------------
(* HandleRequest, lines 179-258 *)

\* lines 183-188
CheckCoordinates ==
    /\ pc = "HandleRequest"
    /\ IF ~check_all_coordinates(route_parameters.coordinates)
       THEN /\ status' = 400
            /\ pc' = "done"
            /\ UNCHANGED phantom_node_vector
       ELSE /\ phantom_node_vector' = [x \in 1..number_of_coordinates |-> <<>>]
            /\ pc' = "GetPhantomNodes"
            /\ UNCHANGED status
    /\ i' = 0
    /\ UNCHANGED <<route_parameters, result_table, components, k, res_route, route,
                   json_result, calls>>

NoCalls == [find |-> <<>>, distance_table |-> 0, tsp |-> <<>>, shortest_path |-> <<>>]

TspAlgos == {"BF", "NN", "FI", "", "XX"}

\* the coordinates of a request of n locations: the first one lies where the
\* network has `first` candidates, the others where it has one
Coordinates(n, first) ==
    [x \in 1..n |-> GoodCoordinate(x - 1, IF x = 1 THEN first ELSE 1)]

\* the requests of the model: the last coordinate may be invalid, a hint comes
\* for the first coordinate or for none
Requests ==
    {[coordinates |-> IF bad THEN [Coordinates(n, first) EXCEPT ![n] = BadCoordinate]
                      ELSE Coordinates(n, first),
      hints |-> hints, check_sum |-> FacadeCheckSum, tsp_algo |-> algo,
      uturns |-> FALSE] :
        n \in LocationCounts, first \in 0..MaxCandidates, bad \in BOOLEAN,
        algo \in TspAlgos, hints \in {<<>>, <<<<1>>>>}}

Init ==
    /\ route_parameters \in Requests
    /\ pc = "HandleRequest"
    /\ status = 0
    /\ phantom_node_vector = <<>>
    /\ i = 0
    /\ result_table = <<>>
    /\ components = <<>>
    /\ k = 0
    /\ res_route = <<>>
    /\ route = <<>>
    /\ json_result = NoResult
    /\ calls = NoCalls

Next ==
    \/ CheckCoordinates
    \/ ReuseHint
    \/ FindPhantomNode
    \/ BuildDistanceTable
    \/ Partition
    \/ RunTSP
    \/ ComputeRoute
    \/ SetOutputs

Spec == Init /\ [][Next]_vars

-----------------------------------------------------------------------------
(* GetPhantomNodes on its own: every list of hints and every number of candidates
   over up to DetailLocations coordinates, from the state HandleRequest calls it in *)

RECURSIVE HintLists(_)
HintLists(n) ==
    IF n = 0 THEN {<<>>}
    ELSE HintLists(n - 1) \cup
         {Append(hs, h) : hs \in {l \in HintLists(n - 1) : Len(l) = n - 1}, h \in HintValues}

InitResolve ==
    /\ \E n \in 1..DetailLocations :
         /\ route_parameters \in
              {[coordinates |-> [x \in 1..n |-> GoodCoordinate(x - 1, found[x])],
                hints |-> hs, check_sum |-> cs, tsp_algo |-> "", uturns |-> FALSE] :
                  found \in [1..n -> 0..MaxCandidates],
                  hs \in HintLists(n), cs \in {FacadeCheckSum, StaleCheckSum}}
         /\ phantom_node_vector = [x \in 1..n |-> <<>>]
    /\ pc = "GetPhantomNodes"
    /\ status = 0
    /\ i = 0
    /\ result_table = <<>>
    /\ components = <<>>
    /\ k = 0
    /\ res_route = <<>>
    /\ route = <<>>
    /\ json_result = NoResult
    /\ calls = NoCalls

NextResolve == ReuseHint \/ FindPhantomNode

SpecResolve == InitResolve /\ [][NextResolve]_vars

-----------------------------------------------------------------------------
(* The components on their own: every table over up to MaxTableLocations
   locations, from the state HandleRequest computes them in *)

InitPartition ==
    /\ \E n \in 1..MaxTableLocations :
         /\ route_parameters =
              [coordinates |-> [x \in 1..n |-> GoodCoordinate(x - 1, 1)],
               hints |-> <<>>, check_sum |-> FacadeCheckSum, tsp_algo |-> "",
               uturns |-> FALSE]
         /\ phantom_node_vector = [x \in 1..n |-> <<Candidate(x - 1, 1)>>]
         /\ i = n
         /\ result_table \in Tables(n, n)
         /\ calls = [NoCalls EXCEPT !.find = Iota(n), !.distance_table = 1]
    /\ pc = "partition"
    /\ status = 0
    /\ components = <<>>
    /\ k = 0
    /\ res_route = <<>>
    /\ route = <<>>
    /\ json_result = NoResult

NextPartition == Partition

SpecPartition == InitPartition /\ [][NextPartition]_vars

-----------------------------------------------------------------------------
(* Properties *)

number_of_locations == Len(phantom_node_vector)

Returned == pc = "done"

\* the components have been computed
Partitioned == pc \in {"tsp", "ComputeRoute"} \/ (pc = "done" /\ status = 200)

\* the components with at least two locations, in their order
ComponentsWithTour(cs) == SelectSeq(cs, LAMBDA c : Len(c) >= 2)

\* the node the directed graph of the non-sentinel entries reaches from the nodes seen
RECURSIVE ReachableFrom(_, _, _)
ReachableFrom(table, n, seen) ==
    LET more == seen \cup {w \in 0..(n - 1) :
                    \E v \in seen : TableEntry(table, n, v, w) # INVALID_EDGE_WEIGHT}
    IN IF more = seen THEN seen ELSE ReachableFrom(table, n, more)

Reaches(a, b) == b \in ReachableFrom(result_table, number_of_locations, {a})

SameComponent(a, b) ==
    \E c \in DOMAIN components : a \in Range(components[c]) /\ b \in Range(components[c])

\* C1: every external call is made exactly once per request: the distance table is
\* built once, and one shortest-path query is issued per trip, never a second one.
C1_EachExternalCallOnce ==
    /\ calls.distance_table <= 1
    /\ Len(calls.shortest_path) = Len(route)
    /\ (Returned /\ status = 200 =>
          calls.distance_table = 1 /\ Len(calls.shortest_path) = Len(res_route))

\* C2: when GetPhantomNodes has returned, the phantom-node array has one entry per
\* coordinate and every entry holds exactly one PhantomNode, whatever the hints,
\* the check_sum and the number of candidates the search returned.
C2_OnePhantomNodePerWaypoint ==
    (pc = "GetPhantomNodes" /\ i = number_of_coordinates) =>
        /\ Len(phantom_node_vector) = number_of_coordinates
        /\ \A x \in DOMAIN phantom_node_vector : Len(phantom_node_vector[x]) = 1

\* C3: the heuristic run on a component depends on tsp_algo and the number of
\* coordinates of the request only: brute force iff "BF" and fewer than 10
\* coordinates, nearest neighbour iff "NN", farthest insertion in every other case;
\* exactly one heuristic is run per component of two or more locations.
C3_HeuristicSelection ==
    LET algo == route_parameters.tsp_algo
        exact == algo = "BF" /\ number_of_coordinates < 10
    IN /\ \A x \in DOMAIN calls.tsp :
            /\ calls.tsp[x].algorithm = "BruteForceTSP" <=> exact
            /\ calls.tsp[x].algorithm = "NearestNeighbourTSP" <=> algo = "NN"
            /\ calls.tsp[x].algorithm = "FarthestInsertionTSP" <=> ~exact /\ algo # "NN"
       /\ [x \in DOMAIN calls.tsp |-> calls.tsp[x].component]
            = ComponentsWithTour(SubSeq(components, 1, k))

C3_Witness ==
    /\ route_parameters.tsp_algo = "BF"
    /\ number_of_coordinates >= 10
    /\ \E x \in DOMAIN calls.tsp :
         /\ Len(calls.tsp[x].component) < 10
         /\ calls.tsp[x].algorithm = "FarthestInsertionTSP"

\* C4: the components are a strict partition of the locations 0..N-1: none is
\* empty, they are pairwise disjoint and together hold every location; with no
\* sentinel in the table there is one component, of all locations in order.
C4_StrictPartition ==
    Partitioned =>
        /\ \A c \in DOMAIN components : components[c] # <<>>
        /\ \A loc \in 0..(number_of_locations - 1) :
             Cardinality({<<c, x>> \in (DOMAIN components) \X (1..number_of_locations) :
                            x <= Len(components[c]) /\ components[c][x] = loc}) = 1
        /\ \A c \in DOMAIN components :
             Range(components[c]) \subseteq 0..(number_of_locations - 1)
        /\ ((\A x \in DOMAIN result_table : result_table[x] # INVALID_EDGE_WEIGHT)
              => components = <<[x \in 1..number_of_locations |-> x - 1]>>)

C4_Witness ==
    /\ pc = "tsp"
    /\ Len(components) = 2
    /\ \E c \in DOMAIN components : Len(components[c]) = 2

\* C5: two locations are in the same component iff each reaches the other along
\* non-sentinel entries of the table; reaching in one direction does not merge them.
C5_MutuallyReachable ==
    Partitioned =>
        \A a, b \in 0..(number_of_locations - 1) :
            SameComponent(a, b) <=> (Reaches(a, b) /\ Reaches(b, a))

C5_Witness ==
    /\ pc = "tsp"
    /\ \E a, b \in 0..(number_of_locations - 1) :
         /\ Reaches(a, b) /\ ~Reaches(b, a) /\ ~SameComponent(a, b)
         /\ TableEntry(result_table, number_of_locations, a, b) = INVALID_EDGE_WEIGHT

\* C6: HandleRequest returns 400 exactly when a coordinate is invalid or the
\* distance table is empty, and 200 otherwise; with 400 nothing is left behind: an
\* invalid coordinate stops it before any phantom node is searched and any table is
\* built, an empty table before any component, trip or route, and the result object
\* is untouched.
C6_BadRequest ==
    LET invalid == \E x \in DOMAIN route_parameters.coordinates :
                      ~coordinate_is_valid(route_parameters.coordinates[x])
        empty == calls.distance_table = 1 /\ result_table = <<>>
    IN Returned =>
         /\ status \in {200, 400}
         /\ status = 400 <=> (invalid \/ empty)
         /\ status = 400 =>
              /\ json_result = NoResult
              /\ components = <<>> /\ res_route = <<>> /\ route = <<>>
              /\ calls.tsp = <<>> /\ calls.shortest_path = <<>>
         /\ invalid =>
              /\ phantom_node_vector = <<>>
              /\ calls.find = <<>>
              /\ calls.distance_table = 0

C6_Witness ==
    /\ Returned /\ status = 400
    /\ calls.distance_table = 1
    /\ calls.find # <<>>

\* C7: a component of one location gets no trip and no route and adds nothing to
\* the distance: as many heuristics are run and routes computed as there are
\* components of two or more locations; two locations with the sentinel in both
\* directions give two components of one location, no heuristic, no shortest-path
\* query, distance 0 and status 200.
C7_Singletons ==
    LET tours == Len(ComponentsWithTour(components))
        two_apart ==
            /\ number_of_locations = 2 /\ Len(result_table) = 4
            /\ result_table[2] = INVALID_EDGE_WEIGHT
            /\ result_table[3] = INVALID_EDGE_WEIGHT
    IN /\ (Returned /\ status = 200) =>
            /\ Len(calls.tsp) = tours
            /\ Len(res_route) = tours
            /\ Len(route) = tours
            /\ tours = 0 => (json_result.distance = 0 /\ calls.shortest_path = <<>>)
       /\ (Returned /\ two_apart) =>
            /\ status = 200
            /\ Len(components) = 2
            /\ \A c \in DOMAIN components : Len(components[c]) = 1
            /\ calls.tsp = <<>> /\ calls.shortest_path = <<>>
            /\ res_route = <<>> /\ route = <<>>
            /\ json_result.distance = 0

C7_Witness ==
    /\ Returned /\ status = 200
    /\ number_of_locations = 2
    /\ result_table[2] = INVALID_EDGE_WEIGHT
    /\ result_table[3] = INVALID_EDGE_WEIGHT
    /\ Len(components) = 2

\* C8: with 200 the distance of the result is the sum of the shortest_path_length
\* of the routes of the components that have a trip, each route covering every leg
\* of its trip, the leg back to the start included; the routes are rendered in the
\* order of the components.
C8_Aggregation ==
    LET with_tour == ComponentsWithTour(components)
    IN (Returned /\ status = 200) =>
         /\ Len(route) = Len(with_tour)
         /\ \A j \in DOMAIN route :
              /\ Range(res_route[j]) = Range(with_tour[j])
              /\ Len(route[j].segment_end_coordinates) = Len(with_tour[j])
              /\ route[j].shortest_path_length =
                   ShortestPathLength(route[j].segment_end_coordinates)
              /\ json_result.geometry[j] = route[j].segment_end_coordinates
         /\ Len(json_result.geometry) = Len(with_tour)
         /\ "distance" \in json_result.values
         /\ json_result.distance =
              SumSeq([j \in DOMAIN route |-> route[j].shortest_path_length])

C8_Witness ==
    /\ Returned /\ status = 200
    /\ Len(route) = 2
    /\ json_result.distance > route[2].shortest_path_length

\* C9: the legs handed to the shortest-path query of a trip of k locations are the
\* k legs (trip[0], trip[1]), ..., (trip[k-2], trip[k-1]), (trip[k-1], trip[0]),
\* and each end of a leg is the single PhantomNode of its location.
C9_LegsOfTrip ==
    \A j \in DOMAIN route :
        LET trip == res_route[j]
            legs == route[j].segment_end_coordinates
            node(x) == phantom_node_vector[trip[x] + 1]
        IN /\ Len(legs) = Len(trip)
           /\ \A x \in DOMAIN trip :
                /\ node(x) = <<legs[x].source_phantom>>
                /\ node((x % Len(trip)) + 1) = <<legs[x].target_phantom>>
                /\ legs[x].target_phantom = legs[(x % Len(trip)) + 1].source_phantom
           /\ \E x \in DOMAIN calls.shortest_path :
                calls.shortest_path[x].segment_end_coordinates = legs

\* C10: for a location GetPhantomNodes takes the decoded hint, and does not search,
\* iff the location has a non-empty hint, the check_sum of the request is that of
\* the network and the decoded node is valid; otherwise it searches: a hint of
\* another network version is never taken.
C10_HintReuse ==
    LET hints == route_parameters.hints
        reusable(loc) ==
            /\ loc + 1 <= Len(hints)
            /\ hints[loc + 1] # <<>>
            /\ route_parameters.check_sum = FacadeCheckSum
            /\ DecodeFromBase64(hints[loc + 1]).forward_node_id < NumberOfNodes
        searched(loc) == loc \in Range(calls.find)
    IN /\ \A loc \in 0..(i - 1) :
            /\ reusable(loc) <=> ~searched(loc)
            /\ reusable(loc) =>
                 phantom_node_vector[loc + 1] = <<DecodeFromBase64(hints[loc + 1])>>
       /\ \A loc \in Range(calls.find) : ~reusable(loc)
       /\ route_parameters.check_sum # FacadeCheckSum =>
            \A loc \in 0..(i - 1) : searched(loc)

C10_Witness ==
    /\ i = number_of_coordinates
    /\ route_parameters.check_sum # FacadeCheckSum
    /\ \E loc \in 0..(i - 1) :
         /\ loc + 1 <= Len(route_parameters.hints)
         /\ route_parameters.hints[loc + 1] # <<>>
         /\ is_valid(DecodeFromBase64(route_parameters.hints[loc + 1]), NumberOfNodes)
         /\ loc \in Range(calls.find)
    /\ \E loc \in 0..(i - 1) : loc + 1 > Len(route_parameters.hints)

====
